---- MODULE Spec2Model ----
(***************************************************************************)
(* The /api/summarize pipeline of server.js: request validation, the       *)
(* remote summarization call (summarizeWithHuggingFace), the local         *)
(* fallback (createFallbackSummary) and the style formatting both apply.   *)
(*                                                                         *)
(* A JavaScript string is a sequence of one-character strings (its UTF-16  *)
(* code units); the bullet U+2022 is the single unit "U+2022".  A          *)
(* JavaScript value is a record tagged with its type.  One request is      *)
(* followed from its arrival to its response; the handler is cut at its    *)
(* awaits (fetch, response.text(), response.json()), and each action is    *)
(* the code that runs between two awaits.                                  *)
(***************************************************************************)
EXTENDS Integers, Sequences, FiniteSets, TLC

VARIABLES
    pc,             \* where the handler of the request stands
    body,           \* req.body: the text and the customPrompt the request carries
    sent,           \* the inputs submitted to the remote endpoint, in order
    remote,         \* the endpoint's answer: its status, then its parsed body
    error,          \* the exception the handler caught from the remote call
    fallbackCalls,  \* how many times createFallbackSummary was called
    responses       \* the responses sent to the caller, in order

vars == <<pc, body, sent, remote, error, fallbackCalls, responses>>

(***************************************************************************)
(* Program constants.                                                      *)
(***************************************************************************)
MaxInputLength == 4000
SentenceMinLength == 20
KeyPointLimit == 5

(***************************************************************************)
(* Bounds of the model.                                                    *)
(***************************************************************************)
MaxSentences == 6
MaxHintWords == 2
MaxSummaryPieces == 3
MaxExcess == 2

(***************************************************************************)
(* JavaScript values and strings.                                          *)
(***************************************************************************)
JsUndefined == [type |-> "undefined"]
JsNull == [type |-> "null"]
Str(s) == [type |-> "string", val |-> s]

IsString(v) == v.type = "string"

\* !v for the values a request carries: undefined, null and '' are falsy.
Falsy(v) == v.type \in {"undefined", "null"} \/ (IsString(v) /\ v.val = <<>>)

Min(a, b) == IF a < b THEN a ELSE b

Whitespace == {" ", "\n", "\t"}

UpperCase == <<"A","B","C","D","E","F","G","H","I","J","K","L","M",
               "N","O","P","Q","R","S","T","U","V","W","X","Y","Z">>
LowerCase == <<"a","b","c","d","e","f","g","h","i","j","k","l","m",
               "n","o","p","q","r","s","t","u","v","w","x","y","z">>

\* String.prototype.toLowerCase
toLowerCase(s) ==
    [i \in 1..Len(s) |->
        IF \E k \in 1..26 : UpperCase[k] = s[i]
        THEN LowerCase[CHOOSE k \in 1..26 : UpperCase[k] = s[i]]
        ELSE s[i]]

\* String.prototype.includes
includes(s, sub) ==
    \E i \in 0..(Len(s) - Len(sub)) : SubSeq(s, i + 1, i + Len(sub)) = sub

\* String.prototype.trim
trim(s) ==
    IF \A i \in 1..Len(s) : s[i] \in Whitespace THEN <<>>
    ELSE LET first == CHOOSE i \in 1..Len(s) :
                        s[i] \notin Whitespace /\ \A k \in 1..(i - 1) : s[k] \in Whitespace
             last == CHOOSE i \in 1..Len(s) :
                        s[i] \notin Whitespace /\ \A k \in (i + 1)..Len(s) : s[k] \in Whitespace
         IN SubSeq(s, first, last)

\* String.prototype.split: on one delimiter character (greedy = FALSE) or on
\* a run of delimiter characters, as the regular expression /[...]+/ does
\* (greedy = TRUE).  Empty pieces at either end are kept, as JavaScript does.
RECURSIVE split(_, _, _)
split(s, delims, greedy) ==
    IF \A i \in 1..Len(s) : s[i] \notin delims THEN <<s>>
    ELSE LET i == CHOOSE k \in 1..Len(s) :
                    s[k] \in delims /\ \A m \in 1..(k - 1) : s[m] \notin delims
             j == IF greedy
                  THEN CHOOSE k \in i..Len(s) :
                         /\ \A m \in i..k : s[m] \in delims
                         /\ (k = Len(s) \/ s[k + 1] \notin delims)
                  ELSE i
         IN <<SubSeq(s, 1, i - 1)>> \o split(SubSeq(s, j + 1, Len(s)), delims, greedy)

\* Array.prototype.join
RECURSIVE join(_, _)
join(parts, sep) ==
    IF Len(parts) = 0 THEN <<>>
    ELSE IF Len(parts) = 1 THEN parts[1]
    ELSE parts[1] \o sep \o join(Tail(parts), sep)

Digits == <<"0","1","2","3","4","5","6","7","8","9">>

\* The decimal text of a number, as a template literal prints it.
RECURSIVE numberToString(_)
numberToString(n) ==
    IF n < 10 THEN <<Digits[n + 1]>>
    ELSE numberToString(n \div 10) \o <<Digits[(n % 10) + 1]>>

(***************************************************************************)
(* The string literals of the code.                                        *)
(***************************************************************************)
Bullet == "U+2022"
LitBullet == <<"b","u","l","l","e","t">>
LitPoints == <<"p","o","i","n","t","s">>
LitAction == <<"a","c","t","i","o","n">>
LitExecutive == <<"e","x","e","c","u","t","i","v","e">>
KeyPointsHeader == <<"K","e","y"," ","P","o","i","n","t","s",":","\n">>
ActionItemsHeader == <<"A","c","t","i","o","n"," ","I","t","e","m","s",":","\n">>
ExecutiveHeader == <<"E","x","e","c","u","t","i","v","e"," ",
                     "S","u","m","m","a","r","y",":","\n","\n">>

\* What a call leaves: a value, or the exception it threw.
Returned(v) == [threw |-> FALSE, value |-> v]
Threw(msg) == [threw |-> TRUE, message |-> msg]

TypeErrorMessage == "Cannot read properties of null (reading 'toLowerCase')"

\* A default parameter (customPrompt = '') replaces undefined only.
DefaultPrompt(customPrompt) ==
    IF customPrompt = JsUndefined THEN Str(<<>>) ELSE customPrompt

(***************************************************************************)
(* summarizeWithHuggingFace, between its awaits.                           *)
(***************************************************************************)
\* Mutant of processedText: the cut is one character short.
processedTextShort(text) ==
    IF Len(text) > MaxInputLength THEN SubSeq(text, 1, MaxInputLength - 1) ELSE text

\* The text submitted to the endpoint.
processedText(text) ==
    IF Len(text) > MaxInputLength THEN SubSeq(text, 1, MaxInputLength) ELSE text

\* A parsed body: null, or an array (or object) whose element 0, if it has
\* one, carries summary_text and generated_text, each a string or undefined.
Body(first) == [type |-> "array", first |-> first]
Element(summary_text, generated_text) ==
    [type |-> "object", summary_text |-> summary_text, generated_text |-> generated_text]

\* result[0]?.summary_text || result[0]?.generated_text || ''
ExtractSummary(result) ==
    IF result = JsNull THEN Threw("Cannot read properties of null (reading '0')")
    ELSE IF result.first = JsUndefined THEN Returned(<<>>)
    ELSE IF ~Falsy(result.first.summary_text) THEN Returned(result.first.summary_text.val)
    ELSE IF ~Falsy(result.first.generated_text) THEN Returned(result.first.generated_text.val)
    ELSE Returned(<<>>)

\* summary.split('.').filter(s => s.trim())
RemoteSentences(summary) ==
    SelectSeq(split(summary, {"."}, FALSE), LAMBDA s : trim(s) # <<>>)

\* Mutant of ApplyCustomPrompt: the action items are numbered from 0.
ApplyCustomPromptFromZero(summary, customPrompt) ==
    IF ~IsString(customPrompt) THEN Threw(TypeErrorMessage)
    ELSE LET prompt == toLowerCase(customPrompt.val)
             sentences == RemoteSentences(summary)
         IN IF includes(prompt, LitBullet) \/ includes(prompt, LitPoints)
            THEN Returned(KeyPointsHeader \o
                     join([i \in 1..Len(sentences) |->
                             <<Bullet, " ">> \o trim(sentences[i]) \o <<".">>], <<"\n">>))
            ELSE IF includes(prompt, LitAction)
            THEN Returned(ActionItemsHeader \o
                     join([i \in 1..Len(sentences) |->
                             numberToString(i - 1) \o <<".", " ">> \o trim(sentences[i]) \o <<".">>],
                          <<"\n">>))
            ELSE IF includes(prompt, LitExecutive)
            THEN Returned(ExecutiveHeader \o summary)
            ELSE Returned(summary)

\* The formatting of the remote summary after the custom prompt.
ApplyCustomPrompt(summary, customPrompt) ==
    IF ~IsString(customPrompt) THEN Threw(TypeErrorMessage)
    ELSE LET prompt == toLowerCase(customPrompt.val)
             sentences == RemoteSentences(summary)
         IN IF includes(prompt, LitBullet) \/ includes(prompt, LitPoints)
            THEN Returned(KeyPointsHeader \o
                     join([i \in 1..Len(sentences) |->
                             <<Bullet, " ">> \o trim(sentences[i]) \o <<".">>], <<"\n">>))
            ELSE IF includes(prompt, LitAction)
            THEN Returned(ActionItemsHeader \o
                     join([i \in 1..Len(sentences) |->
                             numberToString(i) \o <<".", " ">> \o trim(sentences[i]) \o <<".">>],
                          <<"\n">>))
            ELSE IF includes(prompt, LitExecutive)
            THEN Returned(ExecutiveHeader \o summary)
            ELSE Returned(summary)

(***************************************************************************)
(* createFallbackSummary.                                                  *)
(***************************************************************************)
\* text.split(/[.!?]+/).filter(s => s.trim().length > 20)
FallbackSentences(text) ==
    SelectSeq(split(text, {".", "!", "?"}, TRUE),
              LAMBDA s : Len(trim(s)) > SentenceMinLength)

\* Mutant of keyPoints: every long sentence is kept.
keyPointsUnlimited(text) == FallbackSentences(text)

\* sentences.slice(0, Math.min(5, sentences.length))
keyPoints(text) ==
    LET sentences == FallbackSentences(text)
    IN SubSeq(sentences, 1, Min(KeyPointLimit, Len(sentences)))

\* Mutant of FormatKeyPoints: 'executive' is tested before 'bullet'.
FormatKeyPointsExecutiveFirst(points, customPrompt) ==
    IF ~IsString(customPrompt) THEN Threw(TypeErrorMessage)
    ELSE LET prompt == toLowerCase(customPrompt.val)
         IN IF includes(prompt, LitExecutive)
            THEN Returned(ExecutiveHeader \o join(points, <<".", " ">>) \o <<".">>)
            ELSE IF includes(prompt, LitBullet) \/ includes(prompt, LitPoints)
            THEN Returned(KeyPointsHeader \o
                     join([i \in 1..Len(points) |->
                             <<Bullet, " ">> \o trim(points[i]) \o <<".">>], <<"\n">>))
            ELSE IF includes(prompt, LitAction)
            THEN Returned(ActionItemsHeader \o
                     join([i \in 1..Len(points) |->
                             numberToString(i) \o <<".", " ">> \o trim(points[i]) \o <<".">>],
                          <<"\n">>))
            ELSE Returned(join(points, <<".", " ">>) \o <<".">>)

\* The formatting of the key points after the custom prompt.
FormatKeyPoints(points, customPrompt) ==
    IF ~IsString(customPrompt) THEN Threw(TypeErrorMessage)
    ELSE LET prompt == toLowerCase(customPrompt.val)
         IN IF includes(prompt, LitBullet) \/ includes(prompt, LitPoints)
            THEN Returned(KeyPointsHeader \o
                     join([i \in 1..Len(points) |->
                             <<Bullet, " ">> \o trim(points[i]) \o <<".">>], <<"\n">>))
            ELSE IF includes(prompt, LitAction)
            THEN Returned(ActionItemsHeader \o
                     join([i \in 1..Len(points) |->
                             numberToString(i) \o <<".", " ">> \o trim(points[i]) \o <<".">>],
                          <<"\n">>))
            ELSE IF includes(prompt, LitExecutive)
            THEN Returned(ExecutiveHeader \o join(points, <<".", " ">>) \o <<".">>)
            ELSE Returned(join(points, <<".", " ">>) \o <<".">>)

createFallbackSummary(text, customPrompt) ==
    FormatKeyPoints(keyPoints(text), DefaultPrompt(customPrompt))

(***************************************************************************)
(* The handler of POST /api/summarize.                                     *)
(***************************************************************************)
None == [type |-> "none"]

\* Mutant of TextMissing: the text is not trimmed before the test.
TextMissingUntrimmed(text) == Falsy(text)

\* !text || text.trim() === ''
TextMissing(text) == Falsy(text) \/ trim(text.val) = <<>>

BadRequest == [status |-> 400, success |-> FALSE, error |-> "Text is required"]

InternalError(message) ==
    [status |-> 500, success |-> FALSE, error |-> "Failed to generate summary",
     details |-> message]

Success(summary, fallback) ==
    [status |-> 200, success |-> TRUE, summary |-> summary,
     originalLength |-> Len(body.text.val), summaryLength |-> Len(summary),
     fallback |-> fallback]

Init ==
    /\ pc = "idle"
    /\ body = None
    /\ sent = <<>>
    /\ remote = None
    /\ error = None
    /\ fallbackCalls = 0
    /\ responses = <<>>

\* The request arrives: the handler validates the text, answers 400 when it
\* is missing, and otherwise enters summarizeWithHuggingFace up to its fetch.
Receive(b) ==
    /\ pc = "idle"
    /\ body' = b
    /\ IF TextMissing(b.text)
       THEN /\ responses' = Append(responses, BadRequest)
            /\ pc' = "done"
            /\ sent' = sent
       ELSE /\ sent' = Append(sent, processedText(b.text.val))
            /\ pc' = "awaitFetch"
            /\ responses' = responses
    /\ UNCHANGED <<remote, error, fallbackCalls>>

\* Mutant of CatchRemoteError: the first failure retries the remote call.
CatchRemoteErrorRetrying(message) ==
    /\ error' = [type |-> "error", message |-> message]
    /\ sent' = Append(sent, processedText(body.text.val))
    /\ pc' = "awaitFetch"
    /\ UNCHANGED <<body, fallbackCalls, responses>>

\* The remote call threw: the handler's inner catch runs the fallback and
\* answers with it; an exception of the fallback reaches the outer catch.
CatchRemoteError(message) ==
    LET summary == createFallbackSummary(body.text.val, body.customPrompt)
    IN /\ error' = [type |-> "error", message |-> message]
       /\ fallbackCalls' = fallbackCalls + 1
       /\ responses' = Append(responses,
                              IF summary.threw THEN InternalError(summary.message)
                              ELSE Success(summary.value, TRUE))
       /\ pc' = "done"
       /\ UNCHANGED <<body, sent>>

\* fetch rejects (a network error).
FetchRejects ==
    /\ pc = "awaitFetch"
    /\ remote' = remote
    /\ CatchRemoteError("fetch failed")

\* fetch resolves with a status; response.ok decides which body is awaited.
FetchResolves(ok) ==
    /\ pc = "awaitFetch"
    /\ remote' = [type |-> "response", ok |-> ok, result |-> None]
    /\ pc' = IF ok THEN "awaitJson" ELSE "awaitText"
    /\ UNCHANGED <<body, sent, error, fallbackCalls, responses>>

\* The body of a non-success answer was read (or could not be): HTTP error.
ErrorTextSettles ==
    /\ pc = "awaitText"
    /\ remote' = remote
    /\ CatchRemoteError("HTTP error! status")

\* response.json() rejects: the body is malformed.
JsonRejects ==
    /\ pc = "awaitJson"
    /\ remote' = remote
    /\ CatchRemoteError("Unexpected token in JSON")

\* response.json() resolves with the parsed body: the summary is taken from
\* it and formatted, and the handler answers with it.
JsonResolves(result) ==
    /\ pc = "awaitJson"
    /\ remote' = [type |-> "response", ok |-> TRUE, result |-> result]
    /\ LET summary == ExtractSummary(result)
           styled == ApplyCustomPrompt(summary.value, DefaultPrompt(body.customPrompt))
       IN IF summary.threw THEN CatchRemoteError(summary.message)
          ELSE IF summary.value = <<>> THEN CatchRemoteError("No summary generated from API")
          ELSE IF styled.threw THEN CatchRemoteError(styled.message)
          ELSE /\ responses' = Append(responses, Success(styled.value, FALSE))
               /\ pc' = "done"
               /\ UNCHANGED <<body, sent, error, fallbackCalls>>

NextOver(requests, results) ==
    \/ \E b \in requests : Receive(b)
    \/ FetchRejects
    \/ \E ok \in BOOLEAN : FetchResolves(ok)
    \/ ErrorTextSettles
    \/ JsonRejects
    \/ \E result \in results : JsonResolves(result)

(***************************************************************************)
(* The requests and the remote answers the model draws from.               *)
(***************************************************************************)
Rep(c, n) == [i \in 1..n |-> c]

Request(text, customPrompt) == [text |-> text, customPrompt |-> customPrompt]

\* join of every sequence of at most n pieces
Concatenations(pieces, n) ==
    { join(f, <<>>) : f \in UNION { [1..k -> pieces] : k \in 0..n } }

\* The spec's boundary text: six one-letter sentences, all under the threshold.
TinyText == <<"A","."," ","B","."," ","C","."," ","D","."," ","E","."," ","F",".">>

\* A sentence just over the threshold, one exactly at it once trimmed, and a
\* longer one ended by a run of delimiters.
LongSentence == Rep("a", SentenceMinLength + 1) \o <<".">>
EdgeSentence == <<" ">> \o Rep("b", SentenceMinLength) \o <<" ", "!">>
RunSentence == <<" ">> \o Rep("c", SentenceMinLength + 2) \o <<"?", "!">>
SentenceKinds == {LongSentence, EdgeSentence, RunSentence}

Texts ==
    {JsUndefined, JsNull, Str(<<>>), Str(<<" ", "\n">>), Str(TinyText),
     Str(LongSentence \o RunSentence), Str(RunSentence \o EdgeSentence \o LongSentence),
     Str(Rep("d", SentenceMinLength + 3))}

HintBulletPoints == <<"B","u","l","l","e","t"," ","p","o","i","n","t","s">>
HintAction == <<"A","C","T","I","O","N"," ","i","t","e","m","s">>
HintExecutive == <<"E","x","e","c","u","t","i","v","e">>
HintExecutiveBullet == <<"e","x","e","c","u","t","i","v","e"," ","b","u","l","l","e","t">>
HintBrief == <<"b","r","i","e","f">>

Hints ==
    {JsUndefined, JsNull, Str(<<>>), Str(HintBulletPoints), Str(HintAction),
     Str(HintExecutive), Str(HintExecutiveBullet), Str(HintBrief)}

Requests == { Request(t, h) : t \in Texts, h \in Hints }

SummaryPieces == {<<"G", "o">>, <<".">>, <<" ", "U", "p">>, <<"N", "o">>}
Summaries == Concatenations(SummaryPieces, MaxSummaryPieces) \ {<<>>}

Results ==
    {JsNull, Body(JsUndefined), Body(Element(JsUndefined, JsUndefined)),
     Body(Element(Str(<<>>), JsUndefined))}
    \cup { Body(Element(Str(s), JsUndefined)) : s \in Summaries }
    \cup { Body(Element(Str(<<>>), Str(s))) : s \in Summaries }

Next == NextOver(Requests, Results)

Spec == Init /\ [][Next]_vars

\* Texts of up to MaxSentences sentences, to exercise the fallback's selection.
SentenceTexts == { Str(t) : t \in Concatenations(SentenceKinds, MaxSentences) }
SentenceRequests == { Request(t, JsUndefined) : t \in SentenceTexts }
FewResults == {JsNull, Body(Element(Str(<<"G", "o", ".", "U", "p", ".">>), JsUndefined))}

NextFallback == NextOver(SentenceRequests, FewResults)

SpecFallback == Init /\ [][NextFallback]_vars

\* Style hints of up to MaxHintWords words, to exercise the choice of style.
HintWords ==
    {<<"B","U","L","L","E","T">>, <<"P","o","i","n","t","s">>,
     <<"t","r","a","n","s","A","c","t","i","o","n">>,
     <<"E","x","e","c","u","t","i","v","e">>,
     <<"b","r","i","e","f">>, <<" ">>}
WordHints == { Str(h) : h \in Concatenations(HintWords, MaxHintWords) }
StyleRequests ==
    { Request(Str(LongSentence \o RunSentence), h) : h \in WordHints \cup {JsUndefined} }

NextStyle == NextOver(StyleRequests, FewResults)

SpecStyle == Init /\ [][NextStyle]_vars

\* Texts around the input limit; the characters at and past the limit differ
\* from those before it.
LongText(n) ==
    [i \in 1..n |->
        IF i % 64 = 0 THEN "."
        ELSE IF i < MaxInputLength THEN "a"
        ELSE IF i = MaxInputLength THEN "b"
        ELSE "c"]
LongTexts ==
    { Str(LongText(n)) : n \in (MaxInputLength - 1)..(MaxInputLength + MaxExcess) }
    \cup {Str(LongSentence)}
LongRequests ==
    { Request(t, h) : t \in LongTexts,
                      h \in {JsUndefined, Str(HintBulletPoints), Str(HintAction),
                             Str(HintExecutive)} }

NextLong == NextOver(LongRequests, FewResults)

SpecLong == Init /\ [][NextLong]_vars

(***************************************************************************)
(* What the claims speak of, read off the state.                           *)
(***************************************************************************)
\* The request's text is missing, empty or made of whitespace only.
TextIsBlank ==
    \/ body.text.type \in {"undefined", "null"}
    \/ /\ body.text.type = "string"
       /\ \A i \in 1..Len(body.text.val) : body.text.val[i] \in Whitespace

Validated == pc # "idle" /\ ~TextIsBlank

Answered == pc = "done" /\ Len(responses) = 1

\* The style hint as the formatters read it: '' when the request has none.
HintText == IF body.customPrompt.type = "string" THEN body.customPrompt.val ELSE <<>>

StartsWith(s, prefix) == Len(s) >= Len(prefix) /\ SubSeq(s, 1, Len(prefix)) = prefix

\* The endpoint answered with a success status and a non-empty summary field.
RemoteGaveSummary ==
    /\ remote.type = "response"
    /\ remote.ok
    /\ pc = "done"
    /\ remote.result.type = "array"
    /\ remote.result.first # JsUndefined
    /\ \/ /\ remote.result.first.summary_text.type = "string"
          /\ remote.result.first.summary_text.val # <<>>
       \/ /\ remote.result.first.generated_text.type = "string"
          /\ remote.result.first.generated_text.val # <<>>

\* The summary field the endpoint gave: summary_text, else generated_text.
RemoteSummary ==
    IF /\ remote.result.first.summary_text.type = "string"
       /\ remote.result.first.summary_text.val # <<>>
    THEN remote.result.first.summary_text.val
    ELSE remote.result.first.generated_text.val

(***************************************************************************)
(* C1.  A request whose text is missing, empty or whitespace-only is        *)
(* answered with the failure 'Text is required', and neither the remote     *)
(* endpoint nor createFallbackSummary is called for it.                     *)
(***************************************************************************)
C1_BlankTextRejectedFirst ==
    (pc # "idle" /\ TextIsBlank) =>
        /\ pc = "done"
        /\ responses = <<BadRequest>>
        /\ sent = <<>>
        /\ remote = None
        /\ fallbackCalls = 0

C1_Witness ==
    /\ pc = "done"
    /\ body.text = Str(<<" ", "\n">>)
    /\ responses = <<BadRequest>>
    /\ sent = <<>>

(***************************************************************************)
(* C10.  A request runs a single pass: the remote endpoint is called at     *)
(* most once, createFallbackSummary at most once and only after the remote  *)
(* attempt of that request failed, and the request ends with exactly one    *)
(* response sent (none before it ends).                                     *)
(***************************************************************************)
C10_SinglePass ==
    /\ Len(sent) <= 1
    /\ fallbackCalls <= 1
    /\ fallbackCalls = 1 => (Len(sent) = 1 /\ error # None /\ pc = "done")
    /\ Len(responses) = (IF pc = "done" THEN 1 ELSE 0)

C10_Witness ==
    /\ pc = "done"
    /\ Len(sent) = 1
    /\ fallbackCalls = 1
    /\ error # None
    /\ Len(responses) = 1
    /\ responses[1].success

(***************************************************************************)
(* C5.  The text submitted to the remote endpoint is exactly the first      *)
(* min(L, 4000) characters of the input of length L (unchanged up to 4000,  *)
(* 4000 long from 4001 on), and the originalLength of a success response    *)
(* is L, the untruncated length.                                            *)
(***************************************************************************)
C5_TruncatedAtLimit ==
    Validated =>
        LET text == body.text.val
        IN /\ Len(sent) = 1
           /\ Len(sent[1]) = Min(Len(text), 4000)
           /\ \A i \in 1..Len(sent[1]) : sent[1][i] = text[i]
           /\ \A k \in 1..Len(responses) :
                 responses[k].success => responses[k].originalLength = Len(text)

C5_Witness ==
    /\ Answered
    /\ body.text.type = "string"
    /\ Len(body.text.val) = 4001
    /\ Len(sent[1]) = 4000
    /\ sent[1][4000] = "b"
    /\ responses[1].success
    /\ responses[1].originalLength = 4001

(***************************************************************************)
(* C6.  On the remote path and on the fallback path alike, the style is     *)
(* chosen from the hint by case-insensitive substring match, the first of   *)
(* Bullets ('bullet' or 'points'), ActionItems ('action'), Executive        *)
(* ('executive'), Plain: the output opens with that style's header and a    *)
(* Plain output with none.  A hint with both 'bullet' and 'executive'       *)
(* yields 'Key Points:', never 'Executive Summary:'.                        *)
(***************************************************************************)
C6_StylePriority ==
    (Answered /\ responses[1].success) =>
        LET hint == toLowerCase(HintText)
            out == responses[1].summary
            bullets == includes(hint, LitBullet) \/ includes(hint, LitPoints)
            actions == ~bullets /\ includes(hint, LitAction)
            executive == ~bullets /\ ~actions /\ includes(hint, LitExecutive)
        IN /\ StartsWith(out, KeyPointsHeader) <=> bullets
           /\ StartsWith(out, ActionItemsHeader) <=> actions
           /\ StartsWith(out, ExecutiveHeader) <=> executive

C6_Witness ==
    /\ Answered
    /\ responses[1].success
    /\ responses[1].fallback
    /\ includes(toLowerCase(HintText), LitBullet)
    /\ includes(toLowerCase(HintText), LitExecutive)
    /\ HintText # toLowerCase(HintText)
    /\ StartsWith(responses[1].summary, KeyPointsHeader)

(***************************************************************************)
(* C7.  The sentences createFallbackSummary uses are the first min(5, n)    *)
(* of the n segments between runs of '.', '!', '?' whose trimmed length     *)
(* exceeds 20, in their order in the text, repeated ones included; a        *)
(* segment of trimmed length 20 or less never reaches the output.           *)
(***************************************************************************)
IsDelimiter(c) == c \in {".", "!", "?"}

\* Where a maximal delimiter-free stretch of t starts, and where the one
\* starting at i ends.
SegmentStarts(t) ==
    { i \in 1..Len(t) : ~IsDelimiter(t[i]) /\ (i = 1 \/ IsDelimiter(t[i - 1])) }
SegmentEnd(t, i) ==
    CHOOSE j \in i..Len(t) :
        /\ \A m \in i..j : ~IsDelimiter(t[m])
        /\ (j = Len(t) \/ IsDelimiter(t[j + 1]))
Segment(t, i) == SubSeq(t, i, SegmentEnd(t, i))

LongSegmentStarts(t) == { i \in SegmentStarts(t) : Len(trim(Segment(t, i))) > 20 }

\* The first min(5, n) long segments, by position.
ExpectedKeyPoints(t) ==
    LET starts == LongSegmentStarts(t)
        nth(k) == CHOOSE i \in starts : Cardinality({ j \in starts : j < i }) = k - 1
    IN [k \in 1..Min(5, Cardinality(starts)) |-> Segment(t, nth(k))]

C7_FirstFiveLongSentences ==
    (Answered /\ responses[1].success /\ responses[1].fallback) =>
        /\ responses[1].summary =
              FormatKeyPoints(ExpectedKeyPoints(body.text.val), Str(HintText)).value
        /\ \A i \in 1..Len(responses[1].summary) : responses[1].summary[i] # "b"

C7_Witness ==
    /\ Answered
    /\ responses[1].success
    /\ responses[1].fallback
    /\ Cardinality(LongSegmentStarts(body.text.val)) > 5
    /\ Len(ExpectedKeyPoints(body.text.val)) = 5
    /\ ExpectedKeyPoints(body.text.val)[1] = ExpectedKeyPoints(body.text.val)[2]

(***************************************************************************)
(* C9.  The formatter of the remote path and the formatter of the fallback  *)
(* path give the same output for the same hint and the same sentence list,  *)
(* in each of the four styles.                                              *)
(***************************************************************************)
\* The remote path answered: its output, and the fallback formatter's
\* output for the sentence list the remote path worked on.
RemoteAnswered == Answered /\ RemoteGaveSummary /\ responses[1].success /\ ~responses[1].fallback

FallbackFormatOfRemote == FormatKeyPoints(RemoteSentences(RemoteSummary), Str(HintText)).value

C9_SameOutputAllStyles ==
    RemoteAnswered => responses[1].summary = FallbackFormatOfRemote

(***************************************************************************)
(* C9 as amended.  The two formatters choose the style alike and give the   *)
(* same output for Bullets and ActionItems.  For Executive and Plain the    *)
(* remote path emits the remote text as it is (after the header, for        *)
(* Executive) while the fallback path emits the sentences joined with '. '  *)
(* and a closing period: the two agree exactly when the remote text is      *)
(* that joined text.                                                        *)
(***************************************************************************)
C9_SameOutputListStyles ==
    RemoteAnswered =>
        LET out == responses[1].summary
            joined == join(RemoteSentences(RemoteSummary), <<".", " ">>) \o <<".">>
        IN IF StartsWith(out, KeyPointsHeader) \/ StartsWith(out, ActionItemsHeader)
           THEN out = FallbackFormatOfRemote
           ELSE /\ StartsWith(out, ExecutiveHeader) <=>
                      includes(toLowerCase(HintText), LitExecutive)
                /\ out = (IF includes(toLowerCase(HintText), LitExecutive)
                          THEN ExecutiveHeader ELSE <<>>) \o RemoteSummary
                /\ FallbackFormatOfRemote =
                      (IF includes(toLowerCase(HintText), LitExecutive)
                       THEN ExecutiveHeader ELSE <<>>) \o joined
                /\ (out = FallbackFormatOfRemote) <=> (RemoteSummary = joined)

C9_Witness ==
    /\ RemoteAnswered
    /\ Len(RemoteSentences(RemoteSummary)) = 2
    /\ StartsWith(responses[1].summary, ActionItemsHeader)
    /\ responses[1].summary = FallbackFormatOfRemote

(***************************************************************************)
(* C2.  Once the text is validated, a failure of the remote call of any     *)
(* kind (network error, non-success status, malformed body, no summary      *)
(* field) ends in a success response with fallback = true whose summary is  *)
(* createFallbackSummary(text, hint); it never reaches the caller as an     *)
(* error.                                                                   *)
(***************************************************************************)
C2_RemoteFailureAbsorbed ==
    (Validated /\ pc = "done" /\ error # None) =>
        /\ Len(responses) = 1
        /\ responses[1].success
        /\ responses[1].fallback
        /\ responses[1].summary =
              createFallbackSummary(body.text.val, body.customPrompt).value

(***************************************************************************)
(* C3.  Whatever the style hint of the request and whatever the remote      *)
(* call does, a request with non-blank text is answered with success, a     *)
(* summary string, and summaryLength equal to that string's length.         *)
(***************************************************************************)
C3_AlwaysASummary ==
    (Validated /\ pc = "done") =>
        /\ Len(responses) = 1
        /\ responses[1].success
        /\ responses[1].status = 200
        /\ responses[1].summaryLength = Len(responses[1].summary)

(***************************************************************************)
(* C4.  When the endpoint answers a validated request with a success        *)
(* status and a non-empty summary field, the response has fallback = false, *)
(* its summary is the remote result styled after the hint, and              *)
(* createFallbackSummary is not called.                                     *)
(***************************************************************************)
C4_RemoteResultUsed ==
    (Validated /\ RemoteGaveSummary) =>
        /\ fallbackCalls = 0
        /\ error = None
        /\ Len(responses) = 1
        /\ responses[1].success
        /\ ~responses[1].fallback
        /\ responses[1].summary =
              ApplyCustomPrompt(RemoteSummary, DefaultPrompt(body.customPrompt)).value

(***************************************************************************)
(* C8.  createFallbackSummary never fails; when no sentence survives the    *)
(* length filter and the hint selects no style rule, the joined result is   *)
(* empty: nothing stands before the closing period.                         *)
(***************************************************************************)
C8_FallbackNeverFails ==
    (pc = "done" /\ fallbackCalls = 1) =>
        /\ Len(responses) = 1
        /\ responses[1].status # 500
        /\ (/\ LongSegmentStarts(body.text.val) = {}
            /\ ~includes(toLowerCase(HintText), LitBullet)
            /\ ~includes(toLowerCase(HintText), LitPoints)
            /\ ~includes(toLowerCase(HintText), LitAction)
            /\ ~includes(toLowerCase(HintText), LitExecutive))
           => /\ responses[1].fallback
              /\ SubSeq(responses[1].summary, 1, Len(responses[1].summary) - 1) = <<>>

====
